---- MODULE Spec2Model ----
(***************************************************************************)
(* Model of paddle/framework/backward.cc: Backward and BackwardRecursive,  *)
(* the construction of the backward (gradient) operator graph from a       *)
(* forward operator graph.                                                 *)
(*                                                                         *)
(* The recursion of BackwardRecursive is modelled by an explicit call      *)
(* stack: one frame per active call, one action per way a call proceeds    *)
(* or returns.  no_grad_names and uniq_id are the two objects the C++      *)
(* recursion passes by reference.                                          *)
(*                                                                         *)
(* Variable names are strings, built with the same concatenations as the   *)
(* code.  An operator is a record                                          *)
(*     [type, net, inputs, outputs, ops]                                   *)
(* where inputs and outputs are the names of inputs_ and outputs_ in the   *)
(* order ForEachVarName visits them (slot by slot), net tells whether the  *)
(* operator is a NetOp and ops is the child sequence of a NetOp.           *)
(***************************************************************************)
EXTENDS Integers, Sequences, FiniteSets, TLC

\* ------------------------------------------------------------------------
\* Bounds of the model
\* ------------------------------------------------------------------------

\* Largest number of children of the forward root NetOp.
MaxOps == 2

\* Largest number of names in the caller's no_grad_vars.
MaxNoGrad == 1

\* Number of times Backward is called on the same forward graph.
MaxRuns == 2

\* ------------------------------------------------------------------------
\* Names (paddle/framework/operator.h, used by backward.cc)
\* ------------------------------------------------------------------------

kGradVarSuffix == "@GRAD"

kZeroVarSuffix == "@ZERO"

kEmptyVarName == "@EMPTY@"

\* sizeof(kGradVarSuffix) / sizeof(char): the characters and the final \0.
SizeofGradVarSuffix == Len(kGradVarSuffix) + 1

GradVarName(name) == name \o kGradVarSuffix

\* ------------------------------------------------------------------------
\* Sequence helpers
\* ------------------------------------------------------------------------

Range(s) == {s[i] : i \in DOMAIN s}

RECURSIVE Flatten(_)
Flatten(ss) == IF ss = <<>> THEN <<>> ELSE Head(ss) \o Flatten(Tail(ss))

\* s without the later occurrences of an element.
RECURSIVE Dedup(_)
Dedup(s) ==
  IF s = <<>> THEN <<>>
  ELSE LET front == Dedup(SubSeq(s, 1, Len(s) - 1))
           last == s[Len(s)]
       IN IF last \in Range(front) THEN front ELSE Append(front, last)

Reverse(s) == [i \in 1..Len(s) |-> s[Len(s) + 1 - i]]

\* All sequences over S of length at most n.
SeqsUpTo(S, n) == UNION {[1..k -> S] : k \in 0..n}

\* ------------------------------------------------------------------------
\* Operators
\* ------------------------------------------------------------------------

Prim(type, inputs, outputs) ==
  [type |-> type, net |-> FALSE, inputs |-> inputs, outputs |-> outputs,
   ops |-> <<>>]

\* NetOp::CompleteAddOp: the inputs of a net are the names its children read
\* that no earlier child wrote, its outputs the names its children write.
RECURSIVE NetInputs(_, _)
NetInputs(ops, written) ==
  IF ops = <<>> THEN <<>>
  ELSE SelectSeq(Head(ops).inputs, LAMBDA n : n \notin written)
       \o NetInputs(Tail(ops), written \cup Range(Head(ops).outputs))

CompleteAddOp(type, ops) ==
  [type |-> type, net |-> TRUE,
   inputs |-> Dedup(NetInputs(ops, {})),
   outputs |-> Dedup(Flatten([i \in 1..Len(ops) |-> ops[i].outputs])),
   ops |-> ops]

\* NOP(): an empty, sealed NetOp of type @NOP@.
NOP == CompleteAddOp("@NOP@", <<>>)

\* OperatorBase::Rename / NetOp::Rename: every occurrence of old in the inputs
\* and outputs of the operator, and of the operators inside it, becomes new.
RECURSIVE Rename(_, _, _)
Rename(op, old, new) ==
  [type |-> op.type, net |-> op.net,
   inputs |-> [i \in 1..Len(op.inputs) |->
                 IF op.inputs[i] = old THEN new ELSE op.inputs[i]],
   outputs |-> [i \in 1..Len(op.outputs) |->
                 IF op.outputs[i] = old THEN new ELSE op.outputs[i]],
   ops |-> [i \in 1..Len(op.ops) |-> Rename(op.ops[i], old, new)]]

\* NetOp::InsertOp(pos, op): op becomes the child at (0-based) index pos.
InsertOp(ops, pos, op) ==
  SubSeq(ops, 1, pos) \o <<op>> \o SubSeq(ops, pos + 1, Len(ops))

\* The operator types for which the registry holds a gradient operator.
GradRegistered == {"mul", "relu", "split", "fill"}

\* OpRegistry::CreateGradOp: the gradient operator of a forward primitive
\* reads the gradients of the forward outputs and the forward inputs, and
\* writes the gradients of the forward inputs.
CreateGradOp(fwd) ==
  Prim(fwd.type \o "_grad",
       [i \in 1..Len(fwd.outputs) |-> GradVarName(fwd.outputs[i])] \o fwd.inputs,
       [i \in 1..Len(fwd.inputs) |-> GradVarName(fwd.inputs[i])])

\* ------------------------------------------------------------------------
\* backward.cc
\* ------------------------------------------------------------------------

\* AllInSet with all_in_set starting false: an operator without names is not
\* found to have all its names in the set.
AllInSetStartsFalse(names, suffix, set) ==
  /\ names # <<>>
  /\ \A i \in 1..Len(names) : (names[i] \o suffix) \in set

\* AllInSet: the loop of ForEachVarName stops at the first name whose
\* suffixed form is not in the set; all_in_set is the last test made.
RECURSIVE AllInSet(_, _, _)
AllInSet(names, suffix, set) ==
  IF names = <<>> THEN TRUE
  ELSE IF (Head(names) \o suffix) \in set
       THEN AllInSet(Tail(names), suffix, set)
       ELSE FALSE

\* The insertion loop with a callback that returns true: ForEachVarName stops
\* after the first input.
InputGradNamesFirstOnly(fwd) ==
  IF fwd.inputs = <<>> THEN {} ELSE {GradVarName(fwd.inputs[1])}

\* The names the all-outputs-unneeded rule inserts: GradVarName of every
\* forward input.
InputGradNames(fwd) == {GradVarName(fwd.inputs[i]) : i \in 1..Len(fwd.inputs)}

\* The prefix without the "+ 1 for \0": one character too short.
GradStemWithoutPlusOne(grad_input) ==
  LET count == Len(grad_input) - SizeofGradVarSuffix
  IN IF count < 0 THEN grad_input ELSE SubSeq(grad_input, 1, count)

\* grad_input.substr(0, grad_input.size() - sizeof(kGradVarSuffix) + 1).
\* The subtraction is made in size_t: for a name shorter than the suffix it
\* wraps to a count beyond the size of the name, and substr then returns the
\* whole name.
GradStem(grad_input) ==
  LET count == Len(grad_input) - SizeofGradVarSuffix + 1
  IN IF count < 0 THEN grad_input ELSE SubSeq(grad_input, 1, count)

\* The zero-fill loop over grad_op->inputs_: the rewritten inputs.
ZeroFillInputs(inputs, no_grad) ==
  [i \in 1..Len(inputs) |->
     IF inputs[i] \in no_grad
     THEN GradStem(inputs[i]) \o kZeroVarSuffix
     ELSE inputs[i]]

\* The zero-fill loop over grad_op->inputs_: the fill_zeros_like operators
\* added to net, in the order of the inputs.
RECURSIVE ZeroFillOps(_, _)
ZeroFillOps(inputs, no_grad) ==
  IF inputs = <<>> THEN <<>>
  ELSE (IF Head(inputs) \in no_grad
        THEN <<Prim("fill_zeros_like", <<GradStem(Head(inputs))>>,
                    <<GradStem(Head(inputs)) \o kZeroVarSuffix>>)>>
        ELSE <<>>)
       \o ZeroFillOps(Tail(inputs), no_grad)

\* The loop looking up the variable name instead of the gradient name.
DiscardOutputsByStem(outputs, no_grad) ==
  [i \in 1..Len(outputs) |->
     IF GradStem(outputs[i]) \in no_grad THEN kEmptyVarName ELSE outputs[i]]

\* The loop over grad_op->outputs_: an output in no_grad_names becomes
\* kEmptyVarName.
DiscardOutputs(outputs, no_grad) ==
  [i \in 1..Len(outputs) |->
     IF outputs[i] \in no_grad THEN kEmptyVarName ELSE outputs[i]]

\* The primitive case without the early return of grad_op: always a net.
PrimitiveResultAlwaysNet(grad_op, no_grad) ==
  CompleteAddOp("@GENERATED_BACKWARD@",
                Append(ZeroFillOps(grad_op.inputs, no_grad),
                       Prim(grad_op.type, ZeroFillInputs(grad_op.inputs, no_grad),
                            DiscardOutputs(grad_op.outputs, no_grad))))

\* The primitive case after CreateGradOp: the operator returned.
PrimitiveResult(grad_op, no_grad) ==
  LET aux == ZeroFillOps(grad_op.inputs, no_grad)
      g == Prim(grad_op.type, ZeroFillInputs(grad_op.inputs, no_grad),
                DiscardOutputs(grad_op.outputs, no_grad))
  IN IF aux = <<>> THEN g
     ELSE CompleteAddOp("@GENERATED_BACKWARD@", Append(aux, g))

\* dup_output_ops is kept as a sequence of [name, ops] entries in the order
\* the names were first inserted.  dup_output_ops[out].emplace_back(id):
RecordOutput(dup, out, id) ==
  IF \E k \in 1..Len(dup) : dup[k].name = out
  THEN [k \in 1..Len(dup) |->
          IF dup[k].name = out
          THEN [name |-> out, ops |-> Append(dup[k].ops, id)]
          ELSE dup[k]]
  ELSE Append(dup, [name |-> out, ops |-> <<id>>])

\* ForEachVarName(bwd->outputs_, ...) of the composite loop.
RECURSIVE RecordOutputs(_, _, _)
RecordOutputs(dup, outputs, id) ==
  IF outputs = <<>> THEN dup
  ELSE RecordOutputs(RecordOutput(dup, Head(outputs), id), Tail(outputs), id)

\* name + "@RENAME@" + std::to_string(uid) + "@" + std::to_string(i)
RenameName(name, uid, i) ==
  name \o "@RENAME@" \o ToString(uid) \o "@" \o ToString(i)

\* dup_outputs of one entry of dup_output_ops.
DupOutputs(entry, uid) ==
  [i \in 1..Len(entry.ops) |-> RenameName(entry.name, uid, i - 1)]

\* The inner loop renaming only the last producer.
RenameProducersLastOnly(ops, entry, uid, k) ==
  LET last == Len(entry.ops)
  IN [ops EXCEPT ![entry.ops[last] + 1] =
        Rename(@, entry.name, RenameName(entry.name, uid, last - 1))]

\* The inner loop over dup_op: net->ops_[dup_op[i]]->Rename(name, i-th name),
\* for i from the k-th producer on.
RECURSIVE RenameProducers(_, _, _, _)
RenameProducers(ops, entry, uid, k) ==
  IF k > Len(entry.ops) THEN ops
  ELSE LET off == entry.ops[k] + 1
       IN RenameProducers(
            [ops EXCEPT ![off] =
               Rename(ops[off], entry.name, RenameName(entry.name, uid, k - 1))],
            entry, uid, k + 1)

\* The loop over dup_output_ops (entries in iteration order): the children
\* after all renames.
RECURSIVE RenameAll(_, _, _)
RenameAll(ops, entries, uid) ==
  IF entries = <<>> THEN ops
  ELSE RenameAll(
         IF Len(Head(entries).ops) = 1 THEN ops
         ELSE RenameProducers(ops, Head(entries), uid, 1),
         Tail(entries), uid)

\* insert_position with dup_op.front() for dup_op.back(): the add operator
\* is scheduled after the first producer.
RECURSIVE InsertPositionAtFront(_, _)
InsertPositionAtFront(entries, uid) ==
  IF entries = <<>> THEN <<>>
  ELSE (IF Len(Head(entries).ops) = 1 THEN <<>>
        ELSE <<[first |-> Head(entries).ops[1],
                second |-> Prim("add", DupOutputs(Head(entries), uid),
                                <<Head(entries).name>>)]>>)
       \o InsertPositionAtFront(Tail(entries), uid)

\* The loop over dup_output_ops: insert_position as it is pushed back.
RECURSIVE InsertPosition(_, _)
InsertPosition(entries, uid) ==
  IF entries = <<>> THEN <<>>
  ELSE (IF Len(Head(entries).ops) = 1 THEN <<>>
        ELSE <<[first |-> Head(entries).ops[Len(Head(entries).ops)],
                second |-> Prim("add", DupOutputs(Head(entries), uid),
                                <<Head(entries).name>>)]>>)
       \o InsertPosition(Tail(entries), uid)

\* insert_position sorted with l.first < r.first.
RECURSIVE SortAscending(_, _)
SortAscending(list, key) ==
  IF key < 0 THEN <<>>
  ELSE SortAscending(list, key - 1) \o SelectSeq(list, LAMBDA p : p.first = key)

\* insert_position.sort(l.first > r.first): std::list::sort is stable.
RECURSIVE SortDescending(_, _)
SortDescending(list, key) ==
  IF key < 0 THEN <<>>
  ELSE SelectSeq(list, LAMBDA p : p.first = key) \o SortDescending(list, key - 1)

\* The loop with net->InsertOp(pos.first, pos.second).
RECURSIVE InsertAllBeforeProducer(_, _)
InsertAllBeforeProducer(ops, list) ==
  IF list = <<>> THEN ops
  ELSE InsertAllBeforeProducer(InsertOp(ops, Head(list).first, Head(list).second),
                               Tail(list))

\* for (auto& pos : insert_position) net->InsertOp(pos.first + 1, pos.second)
RECURSIVE InsertAll(_, _)
InsertAll(ops, list) ==
  IF list = <<>> THEN ops
  ELSE InsertAll(InsertOp(ops, Head(list).first + 1, Head(list).second),
                 Tail(list))

\* The composite case after the loop over the children: the sealed net.
CompositeResult(ops, entries, uid) ==
  CompleteAddOp("@GENERATED_BACKWARD@",
                InsertAll(RenameAll(ops, entries, uid),
                          SortDescending(InsertPosition(entries, uid), Len(ops))))

\* ------------------------------------------------------------------------
\* Forward graphs
\* ------------------------------------------------------------------------

\* The forward primitives the graphs are built from.  "print" has no
\* registered gradient operator.
FwdPrims ==
  { Prim("mul", <<"X", "Y">>, <<"Out">>),
    Prim("relu", <<"X">>, <<"Y">>),
    Prim("relu", <<"X">>, <<"Out">>),
    Prim("relu", <<"Y">>, <<"Out">>),
    Prim("mul", <<"X", "X">>, <<"Y">>),
    Prim("mul", <<"Y", "Y">>, <<"Out">>),
    Prim("split", <<"X">>, <<"Y", "Out">>),
    Prim("fill", <<>>, <<"X">>),
    Prim("relu", <<"X">>, <<"X">>),
    Prim("print", <<"X">>, <<"Y">>) }


\* The forward variables a caller may name in no_grad_vars.
FwdVars == {"X", "Y", "Out"}

\* A forward NetOp: its children added by AddOp, then CompleteAddOp.
FwdNet(ops) == CompleteAddOp("plain_net", ops)

\* The nets that may be nested in the root net.
InnerNets ==
  { FwdNet(<<>>),
    FwdNet(<<Prim("mul", <<"X", "X">>, <<"Y">>)>>),
    FwdNet(<<Prim("relu", <<"X">>, <<"Y">>), Prim("mul", <<"X", "Y">>, <<"Out">>)>>),
    FwdNet(<<Prim("relu", <<"X">>, <<"Y">>), Prim("relu", <<"Y">>, <<"Out">>)>>) }

FwdGraphs ==
  FwdPrims \cup {FwdNet(s) : s \in SeqsUpTo(FwdPrims \cup InnerNets, MaxOps)}

NoGradLists == {S \in SUBSET FwdVars : Cardinality(S) <= MaxNoGrad}

\* ------------------------------------------------------------------------
\* State
\* ------------------------------------------------------------------------

VARIABLES
  forwardOp,      \* the forward graph given to Backward
  no_grad_vars,   \* the caller's set of variables that need no gradient
  no_grad_names,  \* Backward's local set, shared by the whole recursion
  uniq_id,        \* Backward's local counter uid, shared by the recursion
  stack,          \* the active calls of BackwardRecursive, outermost first
  outcome,        \* what each finished call of Backward returned or threw
  map_order,      \* iteration order of std::unordered_map in this build
  ret,            \* record of the call of BackwardRecursive that returned last
  uids,           \* the ids drawn by composite calls in this Backward call
  renames         \* the rename names generated in this Backward call

vars == <<forwardOp, no_grad_vars, no_grad_names, uniq_id, stack, outcome,
          map_order, ret, uids, renames>>

\* A placeholder where no operator is meant.
NoOp == Prim("", <<>>, <<>>)

NoRet ==
  [rule |-> "none", fwd |-> NoOp, op |-> NoOp, ngs0 |-> {}, uid0 |-> 0,
   uid |-> 0, depth |-> 0, pre |-> <<>>, dup |-> <<>>, grad_op |-> NoOp]

\* The frame of a call BackwardRecursive(fwd, no_grad_names, uniq_id).
Frame(fwd, ngs, uid) ==
  [fwd |-> fwd, pc |-> "enter", local_op_id |-> 0, ops |-> <<>>,
   dup |-> <<>>, ngs0 |-> ngs, uid0 |-> uid]

Top == stack[Len(stack)]

Caller == SubSeq(stack, 1, Len(stack) - 1)

Init ==
  /\ forwardOp \in FwdGraphs
  /\ no_grad_vars \in NoGradLists
  /\ no_grad_names = {}
  /\ uniq_id = 0
  /\ stack = <<>>
  /\ outcome = <<>>
  /\ map_order = "unobserved"
  /\ ret = NoRet
  /\ uids = <<>>
  /\ renames = {}

\* The seed without the gradient name of the empty variable.
SeedNoGradNamesWithoutEmpty(no_grad) ==
  {name \o kGradVarSuffix : name \in no_grad}

\* The set Backward seeds before the recursion.
SeedNoGradNames(no_grad) ==
  {kEmptyVarName \o kGradVarSuffix} \cup {name \o kGradVarSuffix : name \in no_grad}

\* Backward with a counter that outlives the call (a static uid).
BackwardStaticUid ==
  /\ stack = <<>>
  /\ Len(outcome) < MaxRuns
  /\ no_grad_names' = SeedNoGradNames(no_grad_vars)
  /\ stack' = <<Frame(forwardOp, no_grad_names', uniq_id)>>
  /\ ret' = NoRet
  /\ uids' = <<>>
  /\ renames' = {}
  /\ UNCHANGED <<forwardOp, no_grad_vars, outcome, map_order, uniq_id>>

\* Backward: seed no_grad_names, set uid to 0, call BackwardRecursive.
Backward ==
  /\ stack = <<>>
  /\ Len(outcome) < MaxRuns
  /\ no_grad_names' = SeedNoGradNames(no_grad_vars)
  /\ uniq_id' = 0
  /\ stack' = <<Frame(forwardOp, no_grad_names', uniq_id')>>
  /\ ret' = NoRet
  /\ uids' = <<>>
  /\ renames' = {}
  /\ UNCHANGED <<forwardOp, no_grad_vars, outcome, map_order>>

\* The call on top of the stack returns bwd.  The root call returns to
\* Backward; any other call returns into the loop of its caller, which adds
\* bwd to its net, records the outputs of bwd in dup_output_ops and moves on
\* to the next child.
Return(bwd) ==
  IF Caller = <<>>
  THEN /\ stack' = <<>>
       /\ outcome' = Append(outcome, [thrown |-> FALSE, op |-> bwd])
  ELSE /\ stack' =
            [Caller EXCEPT ![Len(Caller)] =
               [@ EXCEPT !.ops = Append(@, bwd),
                         !.dup = RecordOutputs(@, bwd.outputs,
                                               Caller[Len(Caller)].local_op_id),
                         !.local_op_id = @ + 1]]
       /\ UNCHANGED outcome

\* The record of the call on top of the stack as it returns: the forward
\* operator, no_grad_names and uniq_id as they were at the call, the operator
\* returned and, by case, the children and dup_output_ops before the
\* aggregation, the gradient operator as the registry made it, the id drawn.
Returned(rule, bwd, pre, dup, grad_op) ==
  [rule |-> rule, fwd |-> Top.fwd, op |-> bwd, ngs0 |-> Top.ngs0,
   uid0 |-> Top.uid0, uid |-> uniq_id, depth |-> Len(stack), pre |-> pre,
   dup |-> dup, grad_op |-> grad_op]

Entering == stack # <<>> /\ Top.pc = "enter"

InputsUnneeded == AllInSet(Top.fwd.inputs, kGradVarSuffix, no_grad_names)

OutputsUnneeded == AllInSet(Top.fwd.outputs, kGradVarSuffix, no_grad_names)

\* The all-inputs-unneeded rule with the insertion loop of the second rule,
\* over forwardOp.outputs_.
AllInputsUnneededInserts ==
  /\ Entering
  /\ InputsUnneeded
  /\ no_grad_names' =
       no_grad_names \cup {GradVarName(Top.fwd.outputs[i]) :
                             i \in 1..Len(Top.fwd.outputs)}
  /\ Return(NOP)
  /\ ret' = Returned("inputs", NOP, <<>>, <<>>, NoOp)
  /\ UNCHANGED <<forwardOp, no_grad_vars, uniq_id, map_order, uids, renames>>

\* All input gradients are in no_grad_names: return NOP().
AllInputsUnneeded ==
  /\ Entering
  /\ InputsUnneeded
  /\ Return(NOP)
  /\ ret' = Returned("inputs", NOP, <<>>, <<>>, NoOp)
  /\ UNCHANGED <<forwardOp, no_grad_vars, no_grad_names, uniq_id, map_order,
                 uids, renames>>

\* The all-outputs-unneeded rule assigning the input gradients to
\* no_grad_names instead of inserting them.
AllOutputsUnneededAssigns ==
  /\ Entering
  /\ ~InputsUnneeded
  /\ OutputsUnneeded
  /\ no_grad_names' = InputGradNames(Top.fwd)
  /\ Return(NOP)
  /\ ret' = Returned("outputs", NOP, <<>>, <<>>, NoOp)
  /\ UNCHANGED <<forwardOp, no_grad_vars, uniq_id, map_order, uids, renames>>

\* All output gradients are in no_grad_names: insert the input gradients
\* and return NOP().
AllOutputsUnneeded ==
  /\ Entering
  /\ ~InputsUnneeded
  /\ OutputsUnneeded
  /\ no_grad_names' = no_grad_names \cup InputGradNames(Top.fwd)
  /\ Return(NOP)
  /\ ret' = Returned("outputs", NOP, <<>>, <<>>, NoOp)
  /\ UNCHANGED <<forwardOp, no_grad_vars, uniq_id, map_order, uids, renames>>

\* forwardOp.IsNetOp(): start the loop over the children.
EnterNet ==
  /\ Entering
  /\ ~InputsUnneeded
  /\ ~OutputsUnneeded
  /\ Top.fwd.net
  /\ stack' = [stack EXCEPT ![Len(stack)].pc = "loop"]
  /\ ret' = NoRet
  /\ UNCHANGED <<forwardOp, no_grad_vars, no_grad_names, uniq_id, outcome,
                 map_order, uids, renames>>

\* The loop travelling forwardNet.ops_ from begin() to end().
VisitChildForward ==
  /\ stack # <<>>
  /\ Top.pc = "loop"
  /\ Top.local_op_id < Len(Top.fwd.ops)
  /\ stack' = Append(stack,
                     Frame(Top.fwd.ops[Top.local_op_id + 1],
                           no_grad_names, uniq_id))
  /\ ret' = NoRet
  /\ UNCHANGED <<forwardOp, no_grad_vars, no_grad_names, uniq_id, outcome,
                 map_order, uids, renames>>

\* One iteration of the reverse loop: the recursive call on the child *it.
VisitChild ==
  /\ stack # <<>>
  /\ Top.pc = "loop"
  /\ Top.local_op_id < Len(Top.fwd.ops)
  /\ stack' = Append(stack,
                     Frame(Top.fwd.ops[Len(Top.fwd.ops) - Top.local_op_id],
                           no_grad_names, uniq_id))
  /\ ret' = NoRet
  /\ UNCHANGED <<forwardOp, no_grad_vars, no_grad_names, uniq_id, outcome,
                 map_order, uids, renames>>

\* The entries of dup_output_ops in the order the range-for visits them.
Iterate(dup, order) == IF order = "reverse" THEN Reverse(dup) ELSE dup

\* The iteration orders this step may observe: the order of the build once
\* it has shown, either of the two before.
Orders(dup) ==
  IF map_order # "unobserved" THEN {map_order}
  ELSE IF Cardinality({k \in 1..Len(dup) : Len(dup[k].ops) > 1}) > 1
       THEN {"insertion", "reverse"}
       ELSE {"unobserved"}

\* The rename names one composite call generates, each with the call, the
\* name and the producer index it was generated for.
GeneratedNames(dup, uid, call) ==
  UNION {{[call |-> call, uid |-> uid, name |-> dup[k].name, i |-> i - 1,
           new |-> RenameName(dup[k].name, uid, i - 1)] :
            i \in 1..Len(dup[k].ops)} :
         k \in {j \in 1..Len(dup) : Len(dup[j].ops) > 1}}

\* uid = uniq_id without the increment.
NextUniqIdSame(id) == id

\* uid = uniq_id++: the value of uniq_id after a composite call drew id.
NextUniqId(id) == id + 1

\* After the loop: draw uid, rename the duplicate producers, insert the add
\* operators, seal the net and return it.
Aggregate ==
  /\ stack # <<>>
  /\ Top.pc = "loop"
  /\ Top.local_op_id = Len(Top.fwd.ops)
  /\ \E order \in Orders(Top.dup) :
       /\ map_order' = order
       /\ LET uid == uniq_id
              bwd == CompositeResult(Top.ops, Iterate(Top.dup, order), uid)
          IN /\ Return(bwd)
             /\ ret' = Returned("composite", bwd, Top.ops, Top.dup, NoOp)
             /\ uids' = Append(uids, uid)
             /\ renames' = renames \cup
                             GeneratedNames(Top.dup, uid, Len(uids) + 1)
  /\ uniq_id' = NextUniqId(uniq_id)
  /\ UNCHANGED <<forwardOp, no_grad_vars, no_grad_names>>

\* The primitive case: the gradient operator of the registry, its inputs
\* zero-filled and its outputs discarded as no_grad_names says.
PrimitiveCase ==
  /\ Entering
  /\ ~InputsUnneeded
  /\ ~OutputsUnneeded
  /\ ~Top.fwd.net
  /\ Top.fwd.type \in GradRegistered
  /\ LET grad_op == CreateGradOp(Top.fwd)
         bwd == PrimitiveResult(grad_op, no_grad_names)
     IN /\ Return(bwd)
        /\ ret' = Returned("primitive", bwd, <<>>, <<>>, grad_op)
  /\ UNCHANGED <<forwardOp, no_grad_vars, no_grad_names, uniq_id, map_order,
                 uids, renames>>

\* CreateGradOp called at the top of BackwardRecursive, before the two
\* rules are tried.
PrimitiveThrowBeforeRules ==
  /\ Entering
  /\ ~Top.fwd.net
  /\ Top.fwd.type \notin GradRegistered
  /\ stack' = <<>>
  /\ outcome' = Append(outcome, [thrown |-> TRUE, op |-> NoOp])
  /\ ret' = Returned("throw", NoOp, <<>>, <<>>, NoOp)
  /\ UNCHANGED <<forwardOp, no_grad_vars, no_grad_names, uniq_id, map_order,
                 uids, renames>>

\* The primitive case for a type without a registered gradient operator:
\* CreateGradOp throws, and the exception leaves every active call and
\* Backward itself.
PrimitiveThrow ==
  /\ Entering
  /\ ~InputsUnneeded
  /\ ~OutputsUnneeded
  /\ ~Top.fwd.net
  /\ Top.fwd.type \notin GradRegistered
  /\ stack' = <<>>
  /\ outcome' = Append(outcome, [thrown |-> TRUE, op |-> NoOp])
  /\ ret' = Returned("throw", NoOp, <<>>, <<>>, NoOp)
  /\ UNCHANGED <<forwardOp, no_grad_vars, no_grad_names, uniq_id, map_order,
                 uids, renames>>

Next ==
  \/ Backward
  \/ AllInputsUnneeded
  \/ AllOutputsUnneeded
  \/ EnterNet
  \/ VisitChild
  \/ Aggregate
  \/ PrimitiveCase
  \/ PrimitiveThrow

Spec == Init /\ [][Next]_vars

TypeOK ==
  /\ uniq_id \in Nat
  /\ Len(outcome) <= MaxRuns
  /\ map_order \in {"unobserved", "insertion", "reverse"}

\* ------------------------------------------------------------------------
\* Properties
\* ------------------------------------------------------------------------

\* The no-op placeholder, written out.
IsNopPlaceholder(op) ==
  op = [type |-> "@NOP@", net |-> TRUE, inputs |-> <<>>, outputs |-> <<>>,
        ops |-> <<>>]

\* Every name of names has its gradient name in set.
AllGradsIn(names, set) ==
  \A i \in 1..Len(names) : (names[i] \o "@GRAD") \in set

\* C4: a call on a node all of whose output gradient names are in the
\* no-gradient set at the call returns the no-op placeholder, and when it has
\* returned the gradient name of every forward input of the node is in the
\* no-gradient set.
C4_AllOutputsUnneeded ==
  (ret.rule # "none" /\ AllGradsIn(ret.fwd.outputs, ret.ngs0))
    => /\ IsNopPlaceholder(ret.op)
       /\ AllGradsIn(ret.fwd.inputs, no_grad_names)

\* A call returned by the all-outputs-unneeded rule for a node with two
\* different inputs, whose gradient names were not both in the set before.
C4_Witness ==
  /\ ret.rule = "outputs"
  /\ Cardinality(Range(ret.fwd.inputs)) = 2
  /\ AllGradsIn(ret.fwd.outputs, ret.ngs0)
  /\ \A i \in 1..Len(ret.fwd.inputs) : (ret.fwd.inputs[i] \o "@GRAD") \notin ret.ngs0
  /\ AllGradsIn(ret.fwd.inputs, no_grad_names)

\* C5: a call on a node (primitive or net, also one without inputs) all of
\* whose input gradient names are in the no-gradient set at the call returns
\* exactly the no-op placeholder, and never goes on to the other cases.
C5_AllInputsUnneeded ==
  /\ (ret.rule # "none" /\ AllGradsIn(ret.fwd.inputs, ret.ngs0))
       => IsNopPlaceholder(ret.op)
  /\ \A d \in 1..Len(stack) :
       AllGradsIn(stack[d].fwd.inputs, stack[d].ngs0) => stack[d].pc = "enter"

\* A call on a primitive without inputs returned the placeholder.
C5_Witness ==
  /\ ret.rule = "inputs"
  /\ ret.fwd.inputs = <<>>
  /\ ~ret.fwd.net
  /\ IsNopPlaceholder(ret.op)

\* The gradient primitive of the operator a primitive case returned, and the
\* operators before it.
GradPrimitive(op) == IF op.net THEN op.ops[Len(op.ops)] ELSE op

AuxOps(op) == IF op.net THEN SubSeq(op.ops, 1, Len(op.ops) - 1) ELSE <<>>

\* The positions of the inputs of the registry's gradient operator that are
\* in the no-gradient set.
UnneededInputs(r) ==
  {i \in 1..Len(r.grad_op.inputs) : r.grad_op.inputs[i] \in r.ngs0}

\* C6: in the primitive case, each input y@GRAD of the gradient operator that
\* is in the no-gradient set is rewritten to y@ZERO, and a fill_zeros_like
\* operator with Src = y and Dst = y@ZERO stands before the gradient
\* primitive; the other inputs are unchanged, and every operator before the
\* gradient primitive is the zero-fill of one rewritten input.
C6_ZeroFill ==
  ret.rule = "primitive" =>
    LET gin == ret.grad_op.inputs
        g == GradPrimitive(ret.op)
        aux == AuxOps(ret.op)
    IN /\ Len(g.inputs) = Len(gin)
       /\ \A i \in 1..Len(gin) :
            IF gin[i] \in ret.ngs0
            THEN \E y \in Range(ret.fwd.outputs) \cup Range(ret.fwd.inputs) :
                   /\ gin[i] = y \o "@GRAD"
                   /\ g.inputs[i] = y \o "@ZERO"
                   /\ \E k \in 1..Len(aux) :
                        aux[k] = [type |-> "fill_zeros_like", net |-> FALSE,
                                  inputs |-> <<y>>, outputs |-> <<y \o "@ZERO">>,
                                  ops |-> <<>>]
            ELSE g.inputs[i] = gin[i]
       /\ \A k \in 1..Len(aux) :
            /\ aux[k].type = "fill_zeros_like"
            /\ \E i \in UnneededInputs(ret) : aux[k].outputs = <<g.inputs[i]>>

\* A primitive case with one gradient input in the no-gradient set and
\* another one not in it.
C6_Witness ==
  /\ ret.rule = "primitive"
  /\ ret.op.net
  /\ \E i, j \in 1..Len(ret.fwd.outputs) :
       /\ (ret.fwd.outputs[i] \o "@GRAD") \in ret.ngs0
       /\ (ret.fwd.outputs[j] \o "@GRAD") \notin ret.ngs0
  /\ \E k \in 1..Len(ret.op.ops) : ret.op.ops[k].type = "fill_zeros_like"

\* C7: in the primitive case the result is the gradient primitive itself
\* exactly when none of its inputs is in the no-gradient set; otherwise it is
\* a net of type @GENERATED_BACKWARD@ whose children are one fill_zeros_like
\* per such input and then the gradient primitive.  mul(X, Y) -> Out with an
\* empty no-grad list gives the single primitive mul_grad.
C7_Wrapping ==
  ret.rule = "primitive" =>
    LET n == Cardinality(UnneededInputs(ret))
    IN /\ (~ret.op.net) <=> (n = 0)
       /\ n = 0 => /\ ret.op.type = ret.fwd.type \o "_grad"
                   /\ ret.op.ops = <<>>
       /\ n > 0 => /\ ret.op.type = "@GENERATED_BACKWARD@"
                   /\ Len(ret.op.ops) = n + 1
                   /\ \A k \in 1..n : /\ ret.op.ops[k].type = "fill_zeros_like"
                                      /\ ~ret.op.ops[k].net
                   /\ ret.op.ops[n + 1].type = ret.fwd.type \o "_grad"
                   /\ ~ret.op.ops[n + 1].net
       /\ ( /\ ret.fwd = [type |-> "mul", net |-> FALSE,
                          inputs |-> <<"X", "Y">>, outputs |-> <<"Out">>,
                          ops |-> <<>>]
            /\ ret.ngs0 = {"@EMPTY@@GRAD"} )
          => ret.op = [type |-> "mul_grad", net |-> FALSE,
                       inputs |-> <<"Out@GRAD", "X", "Y">>,
                       outputs |-> <<"X@GRAD", "Y@GRAD">>, ops |-> <<>>]

\* Backward of the single primitive mul(X, Y) -> Out with an empty no-grad
\* list has returned.
C7_Witness ==
  /\ forwardOp = Prim("mul", <<"X", "Y">>, <<"Out">>)
  /\ no_grad_vars = {}
  /\ ret.rule = "primitive"
  /\ stack = <<>>
  /\ ~ret.op.net

\* C8: in the primitive case, an output of the gradient primitive is the
\* empty-variable sentinel if its name was in the no-gradient set, and keeps
\* its name otherwise.
C8_DiscardedOutputs ==
  ret.rule = "primitive" =>
    LET gout == ret.grad_op.outputs
        g == GradPrimitive(ret.op)
    IN /\ Len(g.outputs) = Len(gout)
       /\ \A i \in 1..Len(gout) :
            g.outputs[i] = IF gout[i] \in ret.ngs0 THEN "@EMPTY@" ELSE gout[i]

\* A primitive case with one output discarded and one output kept.
C8_Witness ==
  /\ ret.rule = "primitive"
  /\ \E i, j \in 1..Len(ret.grad_op.outputs) :
       /\ ret.grad_op.outputs[i] \in ret.ngs0
       /\ GradPrimitive(ret.op).outputs[i] = "@EMPTY@"
       /\ ret.grad_op.outputs[j] \notin ret.ngs0
       /\ GradPrimitive(ret.op).outputs[j] = ret.grad_op.outputs[j]

\* Backward has returned a graph.
BackwardReturned ==
  /\ stack = <<>>
  /\ outcome # <<>>
  /\ ~outcome[Len(outcome)].thrown

\* The graph the last call of Backward returned.
BackwardGraph == outcome[Len(outcome)].op

\* The names written by an operator or by any operator inside it.
RECURSIVE WrittenNames(_)
WrittenNames(op) ==
  Range(op.outputs) \cup UNION {WrittenNames(op.ops[i]) : i \in 1..Len(op.ops)}

\* C2: when Backward returns, no operator of the returned graph writes a name
\* that is in the final no-gradient set.
C2_NoGradNamesNeverWritten ==
  BackwardReturned => WrittenNames(BackwardGraph) \cap no_grad_names = {}

\* The positions of the children of ops that write name.
Writers(ops, name) == {i \in 1..Len(ops) : name \in Range(ops[i].outputs)}

\* No name is written by two children of a net, in the operator and in
\* every net inside it.
RECURSIVE SingleWriters(_)
SingleWriters(op) ==
  /\ \A i, j \in 1..Len(op.ops) :
       i # j => Range(op.ops[i].outputs) \cap Range(op.ops[j].outputs) = {}
  /\ \A i \in 1..Len(op.ops) : SingleWriters(op.ops[i])

\* C3: in every net of a returned backward graph no name is written by more
\* than one child, and a name that more than one child wrote before the
\* aggregation is written in the sealed net by its add operator only.
C3_WellFormed ==
  /\ BackwardReturned => SingleWriters(BackwardGraph)
  /\ ret.rule \in {"inputs", "outputs", "primitive", "composite"}
       => SingleWriters(ret.op)
  /\ ret.rule = "composite" =>
       \A name \in UNION {Range(ret.pre[i].outputs) : i \in 1..Len(ret.pre)} :
         Cardinality(Writers(ret.pre, name)) > 1 =>
           \E a \in 1..Len(ret.op.ops) :
             /\ Writers(ret.op.ops, name) = {a}
             /\ ret.op.ops[a].type = "add"
             /\ ret.op.ops[a].outputs = <<name>>

\* A net returned in which two children wrote the same name before the
\* aggregation.
C3_Witness ==
  /\ ret.rule = "composite"
  /\ \E name \in WrittenNames(ret.op) :
       /\ Cardinality(Writers(ret.pre, name)) > 1
       /\ Cardinality(Writers(ret.op.ops, name)) = 1

\* The add operators of ops that write name.
AddsOf(ops, name) ==
  {a \in 1..Len(ops) : ops[a].type = "add" /\ ops[a].outputs = <<name>>}

\* The number of children among the first k of ops that the aggregation did
\* not insert (no forward operator of the model has a gradient of type add).
BuiltBefore(ops, k) == Cardinality({i \in 1..k : ops[i].type # "add"})

\* The two rename names of name for the id uid.
TwoRenames(name, uid) ==
  << name \o "@RENAME@" \o ToString(uid) \o "@0",
     name \o "@RENAME@" \o ToString(uid) \o "@1" >>

\* How often name stands in names.
Occurrences(names, name) == Cardinality({i \in 1..Len(names) : names[i] = name})

\* The position, in the backward net, of the gradient of forward child i of
\* a net with n children.
BackwardPos(n, i) == n + 1 - i

\* The forward children of r.fwd that read x.
Consumers(r, x) ==
  {i \in 1..Len(r.fwd.ops) : x \in Range(r.fwd.ops[i].inputs)}

\* C1 as stated: when exactly two children of a forward net that reaches the
\* composite case read x (each once) and neither is short-circuited to the
\* placeholder, the returned net has exactly one add operator writing x@GRAD,
\* its inputs are x@GRAD@RENAME@<id>@0 and x@GRAD@RENAME@<id>@1, and it is
\* the child right after the gradient of the consumer that comes later in the
\* backward net.
C1_Original ==
  ret.rule = "composite" =>
    \A x \in FwdVars :
      LET n == Len(ret.fwd.ops)
          cons == Consumers(ret, x)
          later == CHOOSE p \in {BackwardPos(n, i) : i \in cons} :
                     \A i \in cons : BackwardPos(n, i) <= p
      IN ( /\ Cardinality(cons) = 2
           /\ \A i \in cons : Occurrences(ret.fwd.ops[i].inputs, x) = 1
           /\ \A i \in cons : ~IsNopPlaceholder(ret.pre[BackwardPos(n, i)]) )
         => \E a \in 2..Len(ret.op.ops) :
              /\ AddsOf(ret.op.ops, x \o "@GRAD") = {a}
              /\ ret.op.ops[a].inputs = TwoRenames(x \o "@GRAD", ret.uid)
              /\ ret.op.ops[a - 1].type # "add"
              /\ BuiltBefore(ret.op.ops, a) = later

\* The rename names of name for the id uid and the producer indices 0..k-1.
RenamesUpTo(name, uid, k) ==
  [i \in 1..k |-> name \o "@RENAME@" \o ToString(uid) \o "@" \o ToString(i - 1)]

\* How often the children ops list name among their outputs.
TimesWritten(ops, name) ==
  Len(SelectSeq(Flatten([i \in 1..Len(ops) |-> ops[i].outputs]),
                LAMBDA n : n = name))

\* C1, amended: when the backward children built for a forward net list
\* x@GRAD k >= 2 times among their outputs (k = 2 when two children each
\* write it once), the returned net has exactly one add operator writing
\* x@GRAD, its inputs are x@GRAD@RENAME@<id>@0 .. x@GRAD@RENAME@<id>@(k-1),
\* and it stands after the last producing child with nothing but other add
\* operators between them.
C1_Aggregation ==
  ret.rule = "composite" =>
    \A x \in FwdVars :
      LET name == x \o "@GRAD"
          prod == Writers(ret.pre, name)
          k == TimesWritten(ret.pre, name)
          later == CHOOSE p \in prod : \A q \in prod : q <= p
      IN k >= 2
         => \E a \in 2..Len(ret.op.ops) :
              /\ AddsOf(ret.op.ops, name) = {a}
              /\ ret.op.ops[a].inputs = RenamesUpTo(name, ret.uid, k)
              /\ BuiltBefore(ret.op.ops, a) = later

\* A net returned with two add operators scheduled after the same producer:
\* one of them is not the child right after it.
C1_Witness ==
  /\ ret.rule = "composite"
  /\ \E x \in FwdVars :
       /\ Cardinality(Writers(ret.pre, x \o "@GRAD")) = 2
       /\ \E a \in 3..Len(ret.op.ops) :
            /\ AddsOf(ret.op.ops, x \o "@GRAD") = {a}
            /\ ret.op.ops[a - 1].type = "add"
            /\ ret.op.ops[a].inputs = TwoRenames(x \o "@GRAD", ret.uid)

C10_RenameUnique ==
  /\ \A i, j \in 1..Len(uids) : i # j => uids[i] # uids[j]
  /\ \A r, q \in renames :
       <<r.call, r.name, r.i>> # <<q.call, q.name, q.i>> => r.new # q.new

\* The root net and a net nested in it have both generated rename names.
C10_Witness ==
  /\ BackwardReturned
  /\ Len(uids) >= 2
  /\ \E r, q \in renames : r.call = Len(uids) /\ q.call < Len(uids)

\* C11: during one call of Backward the no-gradient set only grows, every
\* active call was entered with a subset of the present set, and the call
\* on the next child of a net is entered with every name that was in the set
\* when the call on the child before it returned.
C11_Monotonic ==
  /\ [](\A d \in 1..Len(stack) :
          /\ stack[d].ngs0 \subseteq no_grad_names
          /\ d > 1 => stack[d - 1].ngs0 \subseteq stack[d].ngs0)
  /\ [][stack # <<>> => no_grad_names \subseteq no_grad_names']_vars
  /\ [][(stack # <<>> /\ Len(stack') > Len(stack))
          => /\ stack'[Len(stack')].ngs0 = no_grad_names
             /\ ret.rule # "none" =>
                  (ret.ngs0 \cup
                   (IF ret.rule = "outputs"
                    THEN {ret.fwd.inputs[i] \o "@GRAD" : i \in 1..Len(ret.fwd.inputs)}
                    ELSE {}))
                    \subseteq stack'[Len(stack')].ngs0]_vars

\* The call on a child is entered with a name that a child after it in the
\* forward net (built before it) added to the set.
C11_Witness ==
  /\ Len(stack) >= 2
  /\ Top.pc = "enter"
  /\ stack[Len(stack) - 1].local_op_id >= 1
  /\ Top.ngs0 # stack[Len(stack) - 1].ngs0

\* C12: Backward enters the recursion once, on the forward root, with the
\* no-gradient set {@EMPTY@@GRAD} \cup {v@GRAD : v in the caller's list} and
\* the counter 0; what that call returns is what Backward returns; the
\* caller's list and the forward graph are not changed.
C12_EntryPoint ==
  /\ [](stack # <<>> =>
          /\ stack[1].fwd = forwardOp
          /\ stack[1].ngs0 = {"@EMPTY@@GRAD"} \cup {v \o "@GRAD" : v \in no_grad_vars}
          /\ stack[1].uid0 = 0)
  /\ [][(stack = <<>> /\ stack' # <<>>)
          => /\ Len(stack') = 1
             /\ stack'[1].pc = "enter"
             /\ no_grad_names' = stack'[1].ngs0
             /\ uniq_id' = 0
             /\ outcome' = outcome]_vars
  /\ [][(stack # <<>> /\ stack' # <<>>) => outcome' = outcome]_vars
  /\ [][(stack # <<>> /\ stack' = <<>>)
          => /\ Len(outcome') = Len(outcome) + 1
             /\ SubSeq(outcome', 1, Len(outcome)) = outcome
             /\ ~outcome'[Len(outcome')].thrown
                  => /\ Len(stack) = 1
                     /\ ret'.depth = 1
                     /\ ret'.fwd = forwardOp
                     /\ outcome'[Len(outcome')].op = ret'.op]_vars
  /\ [][no_grad_vars' = no_grad_vars /\ forwardOp' = forwardOp]_vars

\* Backward has returned the result of the root call for a net and a
\* no-grad list that is not empty.
C12_Witness ==
  /\ BackwardReturned
  /\ forwardOp.net
  /\ no_grad_vars # {}
  /\ ret.depth = 1
  /\ ret.op = BackwardGraph
  /\ ret.ngs0 = {"@EMPTY@@GRAD"} \cup {v \o "@GRAD" : v \in no_grad_vars}

\* b is a with some names replaced by rename names of the id uid.
RECURSIVE SameUpToRename(_, _, _)
SameUpToRename(a, b, uid) ==
  LET same(n, m) ==
        \/ m = n
        \/ \E i \in 0..9 : m = n \o "@RENAME@" \o ToString(uid) \o "@" \o ToString(i)
  IN /\ a.type = b.type
     /\ a.net = b.net
     /\ Len(a.inputs) = Len(b.inputs)
     /\ Len(a.outputs) = Len(b.outputs)
     /\ Len(a.ops) = Len(b.ops)
     /\ \A i \in 1..Len(a.inputs) : same(a.inputs[i], b.inputs[i])
     /\ \A i \in 1..Len(a.outputs) : same(a.outputs[i], b.outputs[i])
     /\ \A i \in 1..Len(a.ops) : SameUpToRename(a.ops[i], b.ops[i], uid)

\* The children of a returned net that the aggregation did not insert.
BuiltChildren(op) == SelectSeq(op.ops, LAMBDA c : c.type # "add")

\* C13: the backward net of a forward net with n children has, before the
\* aggregation, the gradient of forward child n-1-i at position i; each
\* position recorded in dup_output_ops is the index of the child recorded;
\* and the returned net without its add operators is that sequence of n
\* children in that order (renamed).
C13_ReverseTraversal ==
  /\ [](\A d \in 1..Len(stack) :
          stack[d].pc = "loop" =>
            /\ Len(stack[d].ops) = stack[d].local_op_id
            /\ Len(stack[d].ops) <= Len(stack[d].fwd.ops)
            /\ \A k \in 1..Len(stack[d].dup) :
                 \A j \in 1..Len(stack[d].dup[k].ops) :
                   LET pos == stack[d].dup[k].ops[j]
                   IN /\ pos < Len(stack[d].ops)
                      /\ stack[d].dup[k].name
                           \in Range(stack[d].ops[pos + 1].outputs)
            /\ \A c \in 1..Len(stack[d].ops) :
                 \A o \in 1..Len(stack[d].ops[c].outputs) :
                   \E k \in 1..Len(stack[d].dup) :
                     /\ stack[d].dup[k].name = stack[d].ops[c].outputs[o]
                     /\ \E j \in 1..Len(stack[d].dup[k].ops) :
                          stack[d].dup[k].ops[j] = c - 1)
  /\ [][(Len(stack) >= 2 /\ Len(stack') = Len(stack) - 1)
          => LET parent == stack[Len(stack) - 1]
                 n == Len(parent.fwd.ops)
                 i == Len(parent.ops)
             IN /\ stack'[Len(stack')].ops = Append(parent.ops, ret'.op)
                /\ ret'.fwd = parent.fwd.ops[(n - 1 - i) + 1]]_vars
  /\ [](ret.rule = "composite" =>
          /\ Len(ret.pre) = Len(ret.fwd.ops)
          /\ Len(BuiltChildren(ret.op)) = Len(ret.pre)
          /\ \A i \in 1..Len(ret.pre) :
               SameUpToRename(ret.pre[i], BuiltChildren(ret.op)[i], ret.uid))

\* A net with two different children has returned; the gradient of its last
\* child stands first, and an add operator was inserted.
C13_Witness ==
  /\ ret.rule = "composite"
  /\ Len(ret.fwd.ops) = 2
  /\ ret.fwd.ops[1].type # ret.fwd.ops[2].type
  /\ ret.pre[1].type = ret.fwd.ops[2].type \o "_grad"
  /\ ret.pre[2].type = ret.fwd.ops[1].type \o "_grad"
  /\ Len(ret.op.ops) > 2

\* The index (1-based) in ops of its k-th child that is not an add operator.
RECURSIVE NonAddIndex(_, _, _)
NonAddIndex(ops, k, from) ==
  IF from > Len(ops) THEN 0
  ELSE IF ops[from].type # "add"
       THEN (IF k = 1 THEN from ELSE NonAddIndex(ops, k - 1, from + 1))
       ELSE NonAddIndex(ops, k, from + 1)

\* The (0-based) insertion indices pos.first + 1 of list, taken in order,
\* each at most the length the child sequence has when it is used.
RECURSIVE InsertsWithinLength(_, _)
InsertsWithinLength(len, list) ==
  \/ list = <<>>
  \/ /\ Head(list).first + 1 <= len
     /\ InsertsWithinLength(len + 1, Tail(list))

\* The entries of dup_output_ops that get an add operator.
Pending(dup) == {k \in 1..Len(dup) : Len(dup[k].ops) > 1}

\* C14: the insertions of a composite call, taken in descending order of
\* recorded position at index position + 1, stay within the current length
\* of the child sequence; afterwards the add operator recorded with
\* position p lies after the child that was at position p and before the
\* child that was at position p + 1.
C14_SplicePositions ==
  ret.rule = "composite" =>
    /\ InsertsWithinLength(
         Len(ret.pre),
         SortDescending(InsertPosition(Iterate(ret.dup, map_order), ret.uid),
                        Len(ret.pre)))
    /\ \A k \in Pending(ret.dup) :
         LET p == ret.dup[k].ops[Len(ret.dup[k].ops)]
             adds == {a \in 1..Len(ret.op.ops) :
                        /\ ret.op.ops[a].type = "add"
                        /\ ret.op.ops[a].outputs = <<ret.dup[k].name>>}
         IN /\ Cardinality(adds) = 1
            /\ \A a \in adds :
                 /\ NonAddIndex(ret.op.ops, p + 1, 1) # 0
                 /\ NonAddIndex(ret.op.ops, p + 1, 1) < a
                 /\ p + 1 < Len(ret.pre) =>
                      a < NonAddIndex(ret.op.ops, p + 2, 1)

\* A net returned with two add operators recorded at different positions.
C14_Witness ==
  /\ ret.rule = "composite"
  /\ \E k, l \in Pending(ret.dup) :
       ret.dup[k].ops[Len(ret.dup[k].ops)] < ret.dup[l].ops[Len(ret.dup[l].ops)]

\* The children ops are in a valid execution order: a name a child reads is
\* written by no child or by a child at a strictly earlier position.
ValidOrder(ops) ==
  \A i \in 1..Len(ops) :
    \A n \in Range(ops[i].inputs) :
      \/ \A j \in 1..Len(ops) : n \notin Range(ops[j].outputs)
      \/ \E j \in 1..(i - 1) : n \in Range(ops[j].outputs)

\* Each variable is written by at most one child of ops, and once.
SingleAssignment(ops) ==
  \A i, j \in 1..Len(ops) :
    /\ i # j => Range(ops[i].outputs) \cap Range(ops[j].outputs) = {}
    /\ \A a, b \in 1..Len(ops[i].outputs) :
         a # b => ops[i].outputs[a] # ops[i].outputs[b]

\* C15: the backward net returned for a forward net whose children are in a
\* valid execution order, each variable written by at most one child, is in
\* a valid execution order; so is the net a primitive returns with its
\* zero-fill operators; and the add operator of an aggregated name x@GRAD
\* stands before every child that reads x@GRAD.
C15_DependencyOrder ==
  /\ ( /\ ret.rule = "composite"
       /\ ValidOrder(ret.fwd.ops)
       /\ SingleAssignment(ret.fwd.ops) )
       => /\ ValidOrder(ret.op.ops)
          /\ \A k \in Pending(ret.dup) :
               \A a \in AddsOf(ret.op.ops, ret.dup[k].name) :
                 \A r \in 1..Len(ret.op.ops) :
                   ret.dup[k].name \in Range(ret.op.ops[r].inputs) => a < r
  /\ (ret.rule = "primitive" /\ ret.op.net) => ValidOrder(ret.op.ops)

\* A net in valid single-assignment order has returned with an add operator
\* whose output a later child reads.
C15_Witness ==
  /\ ret.rule = "composite"
  /\ ValidOrder(ret.fwd.ops)
  /\ SingleAssignment(ret.fwd.ops)
  /\ \E k \in Pending(ret.dup) :
       \E a \in AddsOf(ret.op.ops, ret.dup[k].name) :
         \E r \in (a + 1)..Len(ret.op.ops) :
           ret.dup[k].name \in Range(ret.op.ops[r].inputs)

\* C16: for every name with k > 1 entries in dup_output_ops, the add
\* operator reads exactly name@RENAME@<id>@0 .. name@RENAME@<id>@(k-1), and
\* the i-th of these names is written by exactly one child, the i-th recorded
\* producer, which stands before the add operator; also when one child lists
\* the name more than once.
C16_PerProducerRenaming ==
  ret.rule = "composite" =>
    \A e \in Pending(ret.dup) :
      LET name == ret.dup[e].name
          k == Len(ret.dup[e].ops)
      IN \E a \in 1..Len(ret.op.ops) :
           /\ AddsOf(ret.op.ops, name) = {a}
           /\ ret.op.ops[a].inputs = RenamesUpTo(name, ret.uid, k)
           /\ \A i \in 1..k :
                LET new == RenamesUpTo(name, ret.uid, k)[i]
                    w == NonAddIndex(ret.op.ops, ret.dup[e].ops[i] + 1, 1)
                IN /\ Writers(ret.op.ops, new) = {w}
                   /\ w < a
                   /\ TimesWritten(ret.op.ops, new) = 1

\* The operator op and every operator inside it.
RECURSIVE AllOps(_)
AllOps(op) == {op} \cup UNION {AllOps(op.ops[i]) : i \in 1..Len(op.ops)}

\* name is kEmptyVarName or a rename name generated from it.
IsSentinel(name) ==
  \/ name = "@EMPTY@"
  \/ /\ Len(name) >= Len("@EMPTY@@RENAME@")
     /\ SubSeq(name, 1, Len("@EMPTY@@RENAME@")) = "@EMPTY@@RENAME@"

\* C17: in the graph Backward returns no operator reads the empty-variable
\* sentinel or a rename name of it, and no add operator writes the sentinel,
\* also when several gradient outputs of one net were replaced by it.
C17_SentinelNotWired ==
  BackwardReturned =>
    \A op \in AllOps(BackwardGraph) :
      /\ \A i \in 1..Len(op.inputs) : ~IsSentinel(op.inputs[i])
      /\ op.type = "add" => "@EMPTY@" \notin Range(op.outputs)

\* The call on top of the stack is at its entry, on a primitive.
AtPrimitive == stack # <<>> /\ Top.pc = "enter" /\ ~Top.fwd.net

\* One of the two rules short-circuits the call on top of the stack.
ShortCircuited ==
  \/ AllGradsIn(Top.fwd.inputs, no_grad_names)
  \/ AllGradsIn(Top.fwd.outputs, no_grad_names)

\* This step ends Backward with the error of the registry.
Throws ==
  /\ Len(outcome') = Len(outcome) + 1
  /\ outcome'[Len(outcome')].thrown

\* C18: Backward ends with the error of the registry, and without a graph,
\* exactly when a call reaches the primitive case on a type that has no
\* registered gradient operator; a primitive short-circuited by one of the
\* two rules returns the placeholder without a lookup in the registry.
C18_UnregisteredGradient ==
  /\ [](\A r \in 1..Len(outcome) : outcome[r].thrown => outcome[r].op = NoOp)
  /\ [][Throws => /\ AtPrimitive
                  /\ ~ShortCircuited
                  /\ Top.fwd.type \notin {"mul", "relu", "split", "fill"}
                  /\ stack' = <<>>]_vars
  /\ [][(AtPrimitive /\ ~ShortCircuited
           /\ Top.fwd.type \notin {"mul", "relu", "split", "fill"})
          => Throws]_vars
  /\ [][(AtPrimitive /\ ShortCircuited)
          => /\ ~Throws
             /\ ret'.rule \in {"inputs", "outputs"}
             /\ ret'.grad_op = NoOp
             /\ IsNopPlaceholder(ret'.op)]_vars
  /\ [][(AtPrimitive /\ ~ShortCircuited
           /\ Top.fwd.type \in {"mul", "relu", "split", "fill"})
          => /\ ~Throws
             /\ ret'.rule = "primitive"
             /\ ret'.grad_op.type = Top.fwd.type \o "_grad"]_vars

\* Backward has ended with the error while building the second child of a
\* net whose first child was short-circuited or built.
C18_Witness ==
  /\ ret.rule = "throw"
  /\ ret.depth = 2
  /\ stack = <<>>
  /\ outcome # <<>>
  /\ outcome[Len(outcome)].thrown
  /\ Len(forwardOp.ops) = 2
  /\ forwardOp.ops[1].type = "print"
  /\ forwardOp.ops[2].type # "print"

\* name ends in kGradVarSuffix.
EndsInGradSuffix(name) ==
  /\ Len(name) >= Len("@GRAD")
  /\ SubSeq(name, Len(name) - Len("@GRAD") + 1, Len(name)) = "@GRAD"

\* C19 speaks of a member of no_grad_names shorter than kGradVarSuffix meeting
\* the zero-fill step.  Every member of no_grad_names, and of the set any
\* call was entered with, ends in kGradVarSuffix, so the step never meets
\* such a name; the source has no error for it.
C19_NoShortNameInSet ==
  /\ \A n \in no_grad_names : EndsInGradSuffix(n)
  /\ \A d \in 1..Len(stack) : \A n \in stack[d].ngs0 : EndsInGradSuffix(n)
  /\ \A n \in ret.ngs0 : EndsInGradSuffix(n)

\* This step is the return of a call of BackwardRecursive.
CallReturns == stack # <<>> /\ Len(stack') < Len(stack) /\ ret'.rule # "throw"

\* C20: a call returning by the all-inputs-unneeded rule or from the
\* primitive case leaves no_grad_names and uniq_id as they were at its entry;
\* one returning by the all-outputs-unneeded rule has added to no_grad_names
\* the gradient names of its own forward inputs and nothing else, and left
\* uniq_id; a call on a net changes neither between its children, and after
\* the last child raises uniq_id by one, drawing an id above every id drawn
\* before in the same traversal.
C20_Frame ==
  /\ [][(CallReturns /\ ret'.rule \in {"inputs", "primitive"})
          => /\ no_grad_names' = ret'.ngs0
             /\ no_grad_names' = no_grad_names
             /\ uniq_id' = ret'.uid0
             /\ uniq_id' = uniq_id]_vars
  /\ [][(CallReturns /\ ret'.rule = "outputs")
          => /\ no_grad_names' =
                  ret'.ngs0 \cup {ret'.fwd.inputs[i] \o "@GRAD" :
                                    i \in 1..Len(ret'.fwd.inputs)}
             /\ uniq_id' = ret'.uid0
             /\ uniq_id' = uniq_id]_vars
  /\ [][(CallReturns /\ ret'.rule = "composite")
          => /\ Top.local_op_id = Len(Top.fwd.ops)
             /\ no_grad_names' = no_grad_names
             /\ uniq_id' = uniq_id + 1
             /\ ret'.uid = uniq_id
             /\ ret'.uid >= ret'.uid0
             /\ uids' = Append(uids, ret'.uid)
             /\ \A k \in 1..Len(uids) : uids[k] < ret'.uid]_vars
  /\ [][(stack # <<>> /\ Len(stack') >= Len(stack))
          => /\ no_grad_names' = no_grad_names
             /\ uniq_id' = uniq_id]_vars

\* The root call on a net has returned after a net nested in it drew an id
\* and a child added names to no_grad_names.
C20_Witness ==
  /\ ret.rule = "composite"
  /\ ret.depth = 1
  /\ stack = <<>>
  /\ ret.uid = 1
  /\ uniq_id = 2
  /\ ret.uid0 = 0
  /\ ret.ngs0 # no_grad_names

====
